---- MODULE Spec2Model ----
(***************************************************************************)
(* installConfigUpdate of packages/zwave-js/src/lib/driver/UpdateConfig.ts *)
(* as a state machine: concurrent invocations that share one cacheDir and   *)
(* one configDir, the proper-lockfile lock directory they compete for, the  *)
(* per-process lock table of the lock library, the temporary workspace of   *)
(* each invocation and the contents of the live configuration directory;    *)
(* and checkForConfigUpdates over version strings, with the parts of the    *)
(* semver package it uses, under a specification of its own (CheckSpec).    *)
(***************************************************************************)
EXTENDS Naturals, Sequences, FiniteSets, TLC

\* ---------------------------------------------------------------- bounds
\* Number of chunks the tarball arrives in.
ArchiveChunks == 1

\* The concurrent invocations of installConfigUpdate, and the processes they
\* may run in (two invocations share a process or do not).
Installs == {"i1", "i2"}
Procs == {"p1", "p2"}
None == "none"

\* Versions a caller may ask for; "v0" is the version installed initially.
OldVersion == "v0"
Versions == {"v1", "v2"}
NoFile == "nofile"

\* ------------------------------------------------------------ file names
\* A file name is the sequence of its characters.
SuffixJson == <<".", "j", "s", "o", "n">>
NameA == <<"a", ".", "j", "s", "o", "n">>
NameB == <<"d", "/", "b", ".", "j", "s", "o", "n">>
NameReadme == <<"r", ".", "m", "d">>
NameOld == <<"o", ".", "j", "s", "o", "n">>
NamePkg == <<"p", ".", "j", "s", "o", "n">>
ConfigPrefix == <<"c", "o", "n", "f", "i", "g", "/">>

\* What the tarball of a version unpacks to under extracted/ (after
\* --strip-components=1): files under config/ and a package.json beside it.
ArchiveFiles == {ConfigPrefix \o NameA, ConfigPrefix \o NameB,
                 ConfigPrefix \o NameReadme, NamePkg}

\* The contents of configDir before any install: files of version v0.
InitConfig == [exists |-> TRUE,
               files |-> {<<NameA, OldVersion>>, <<NameOld, OldVersion>>,
                          <<NameReadme, OldVersion>>},
               stamp |-> OldVersion]

\* String.prototype.endsWith
EndsWith(s, suffix) ==
    /\ Len(s) >= Len(suffix)
    /\ SubSeq(s, Len(s) - Len(suffix) + 1, Len(s)) = suffix

\* String.prototype.startsWith
StartsWith(s, prefix) ==
    /\ Len(s) >= Len(prefix)
    /\ SubSeq(s, 1, Len(prefix)) = prefix

\* The filter handed to copyFilesRecursive: (src) => src.endsWith(".json")
CopyFilter(src) == EndsWith(src, SuffixJson)

\* The extracted files copyFilesRecursive visits: those below extracted/config
UnderConfig(extractedFiles) == {f \in extractedFiles : StartsWith(f, ConfigPrefix)}

\* The path of an extracted file relative to extracted/config
RelPath(f) == SubSeq(f, Len(ConfigPrefix) + 1, Len(f))

\* The files copyFilesRecursive copies into configDir
ToCopy(extractedFiles) == {f \in UnderConfig(extractedFiles) : CopyFilter(f)}

\* ------------------------------------------------------------ JSON values
\* What got's .json() can resolve with: a value of one of JSON's types; an
\* object carries its properties. Undefined is what reading a property that
\* is not there yields.
Undefined == [type |-> "undefined"]
JsonNull == [type |-> "null"]
JsonNumber == [type |-> "number"]
JsonString == [type |-> "string"]
JsonArray == [type |-> "array"]
JsonObject(props) == [type |-> "object", props |-> props]
NoProps == [k \in {} |-> Undefined]

\* o?.k: undefined for null and undefined, the property (if any) otherwise;
\* a number, a string or an array has no property of the names read here
OptionalGet(o, k) ==
    IF o.type = "object" /\ k \in DOMAIN o.props THEN o.props[k] ELSE Undefined

\* The documents the registry may answer a version's metadata request with
RegistryInfos ==
    << JsonNull, JsonString, JsonArray,
       JsonObject(NoProps),
       JsonObject([dist |-> JsonNull]),
       JsonObject([dist |-> JsonString]),
       JsonObject([dist |-> JsonObject(NoProps)]),
       JsonObject([dist |-> JsonObject([tarball |-> JsonNull])]),
       JsonObject([dist |-> JsonObject([tarball |-> JsonNumber])]),
       JsonObject([dist |-> JsonObject([tarball |-> JsonObject(NoProps)])]),
       JsonObject([dist |-> JsonObject([tarball |-> JsonString])]) >>

\* --------------------------------------------------------------- strings
\* A string is the sequence of its characters. The characters that occur, in
\* the order of their character codes (which is how strings compare).
Digits == <<"0", "1", "2", "3", "4", "5", "6", "7", "8", "9">>
CharOrder == <<"-">> \o Digits \o <<"a", "b", "e", "t", "v">>

IsDigit(c) == \E k \in 1..Len(Digits) : Digits[k] = c
IsLetter(c) == \E k \in Len(Digits) + 2..Len(CharOrder) : CharOrder[k] = c
DigitVal(c) == (CHOOSE k \in 1..Len(Digits) : Digits[k] = c) - 1
CharCode(c) == CHOOSE k \in 1..Len(CharOrder) : CharOrder[k] = c

\* String.prototype.indexOf, counted from 1 (0: not found)
IndexOf(s, c) ==
    IF \E k \in 1..Len(s) : s[k] = c
    THEN CHOOSE k \in 1..Len(s) : s[k] = c /\ \A m \in 1..(k - 1) : s[m] # c
    ELSE 0

\* String.prototype.split
RECURSIVE Split(_, _)
Split(s, c) ==
    IF IndexOf(s, c) = 0 THEN <<s>>
    ELSE <<SubSeq(s, 1, IndexOf(s, c) - 1)>>
         \o Split(SubSeq(s, IndexOf(s, c) + 1, Len(s)), c)

\* Array.prototype.join
RECURSIVE Join(_, _)
Join(parts, sep) ==
    IF Len(parts) = 0 THEN <<>>
    ELSE IF Len(parts) = 1 THEN parts[1]
    ELSE parts[1] \o sep \o Join(Tail(parts), sep)

\* The number a string of digits denotes, and the digits of a number
RECURSIVE NumVal(_)
NumVal(s) ==
    IF Len(s) = 0 THEN 0
    ELSE NumVal(SubSeq(s, 1, Len(s) - 1)) * Len(Digits) + DigitVal(s[Len(s)])

RECURSIVE ToDigits(_)
ToDigits(n) ==
    IF n < Len(Digits) THEN <<Digits[n + 1]>>
    ELSE ToDigits(n \div Len(Digits)) \o <<Digits[(n % Len(Digits)) + 1]>>

\* a < b for strings: by the first character that differs, a prefix first
RECURSIVE StrLess(_, _)
StrLess(a, b) ==
    IF Len(b) = 0 THEN FALSE
    ELSE IF Len(a) = 0 THEN TRUE
    ELSE IF a[1] # b[1] THEN CharCode(a[1]) < CharCode(b[1])
    ELSE StrLess(Tail(a), Tail(b))

\* ---------------------------------------------------------------- semver
\* The semver package, as far as checkForConfigUpdates uses it.
\* /^[0-9]+$/
IsDigits(s) == Len(s) > 0 /\ \A k \in 1..Len(s) : IsDigit(s[k])
\* NUMERICIDENTIFIER: 0|[1-9]\d*
IsNumericId(s) == IsDigits(s) /\ (Len(s) = 1 \/ s[1] # "0")
\* BUILDIDENTIFIER: [a-zA-Z0-9-]+
IsBuildId(s) ==
    Len(s) > 0 /\ \A k \in 1..Len(s) : IsDigit(s[k]) \/ IsLetter(s[k]) \/ s[k] = "-"
\* PRERELEASEIDENTIFIER: a numeric identifier, or \d*[a-zA-Z-][a-zA-Z0-9-]*
IsPrereleaseId(s) == IsNumericId(s) \/ (IsBuildId(s) /\ ~IsDigits(s))

\* What parsing a string that is no version yields
Invalid == [valid |-> FALSE]

\* new SemVer(version): the string against the FULL pattern
\* ^v?MAJOR.MINOR.PATCH(-PRERELEASE)?(+BUILD)?$, its parts taken apart
Parse(version) ==
    LET body == IF Len(version) > 0 /\ version[1] = "v" THEN Tail(version) ELSE version
        plus == IndexOf(body, "+")
        main == IF plus = 0 THEN body ELSE SubSeq(body, 1, plus - 1)
        dash == IndexOf(main, "-")
        core == Split(IF dash = 0 THEN main ELSE SubSeq(main, 1, dash - 1), ".")
        pre == IF dash = 0 THEN <<>> ELSE Split(SubSeq(main, dash + 1, Len(main)), ".")
        build == IF plus = 0 THEN <<>> ELSE Split(SubSeq(body, plus + 1, Len(body)), ".")
    IN  IF /\ Len(core) = 3
           /\ \A k \in 1..Len(core) : IsNumericId(core[k])
           /\ \A k \in 1..Len(pre) : IsPrereleaseId(pre[k])
           /\ \A k \in 1..Len(build) : IsBuildId(build[k])
        THEN [valid |-> TRUE, major |-> NumVal(core[1]), minor |-> NumVal(core[2]),
              patch |-> NumVal(core[3]), prerelease |-> pre, build |-> build]
        ELSE Invalid

\* semverValid(v): the version if it parses, null otherwise
semverValid(v) == Parse(v).valid

\* SemVer.format: the version without its build metadata
Format(sv) ==
    Join(<<ToDigits(sv.major), ToDigits(sv.minor), ToDigits(sv.patch)>>, <<".">>)
    \o (IF Len(sv.prerelease) = 0 THEN <<>> ELSE <<"-">> \o Join(sv.prerelease, <<".">>))

\* compareIdentifiers: numbers by value, a number below a word, words as strings
CompareIdentifiers(a, b) ==
    IF IsDigits(a) /\ IsDigits(b)
    THEN (IF NumVal(a) = NumVal(b) THEN "eq" ELSE IF NumVal(a) < NumVal(b) THEN "lt" ELSE "gt")
    ELSE IF a = b THEN "eq"
    ELSE IF IsDigits(a) THEN "lt"
    ELSE IF IsDigits(b) THEN "gt"
    ELSE IF StrLess(a, b) THEN "lt" ELSE "gt"

\* SemVer.compareMain
CompareMain(a, b) ==
    IF a.major # b.major THEN (IF a.major < b.major THEN "lt" ELSE "gt")
    ELSE IF a.minor # b.minor THEN (IF a.minor < b.minor THEN "lt" ELSE "gt")
    ELSE IF a.patch # b.patch THEN (IF a.patch < b.patch THEN "lt" ELSE "gt")
    ELSE "eq"

\* SemVer.comparePre: a release is above its prereleases; prereleases compare
\* identifier by identifier, the shorter one below when one is a prefix
RECURSIVE ComparePreFrom(_, _, _)
ComparePreFrom(a, b, k) ==
    IF k > Len(a) /\ k > Len(b) THEN "eq"
    ELSE IF k > Len(b) THEN "gt"
    ELSE IF k > Len(a) THEN "lt"
    ELSE IF CompareIdentifiers(a[k], b[k]) = "eq" THEN ComparePreFrom(a, b, k + 1)
    ELSE CompareIdentifiers(a[k], b[k])

ComparePre(a, b) ==
    IF Len(a.prerelease) > 0 /\ Len(b.prerelease) = 0 THEN "lt"
    ELSE IF Len(a.prerelease) = 0 /\ Len(b.prerelease) > 0 THEN "gt"
    ELSE IF Len(a.prerelease) = 0 /\ Len(b.prerelease) = 0 THEN "eq"
    ELSE ComparePreFrom(a.prerelease, b.prerelease, 1)

\* SemVer.compare (build metadata takes no part)
Compare(a, b) == IF CompareMain(a, b) # "eq" THEN CompareMain(a, b) ELSE ComparePre(a, b)

\* semverInc(version, "patch"): a prerelease goes to its release, a release to
\* the next patch; the result is the formatted version
semverInc(version) ==
    LET sv == Parse(version)
    IN  Format([sv EXCEPT !.patch = IF Len(sv.prerelease) = 0 THEN @ + 1 ELSE @,
                          !.prerelease = <<>>])

\* A faulty variant of IncludePrerelease: the option is left out
ExcludePrerelease == FALSE

\* The option handed to semverMaxSatisfying: { includePrerelease: true }
IncludePrerelease == TRUE

\* new Comparator(comp): ^((?:<|>)?=?)\s*(version)$
ParseComparator(comp) ==
    LET opLen == IF Len(comp) > 1 /\ comp[2] = "=" THEN 2 ELSE 1
    IN  [operator |-> SubSeq(comp, 1, opLen),
         semver |-> Parse(SubSeq(comp, opLen + 1, Len(comp)))]

\* new Range(range): the comparators of the one set, split at the blanks
\* (neither ^, ~, x nor * occurs in the range built here)
ParseRange(range) ==
    LET comps == Split(range, " ")
    IN  [k \in 1..Len(comps) |-> ParseComparator(comps[k])]

\* Comparator.test
ComparatorTest(c, sv) ==
    IF c.operator = <<">">> THEN Compare(sv, c.semver) = "gt"
    ELSE IF c.operator = <<"<">> THEN Compare(sv, c.semver) = "lt"
    ELSE IF c.operator = <<">", "=">> THEN Compare(sv, c.semver) # "lt"
    ELSE IF c.operator = <<"<", "=">> THEN Compare(sv, c.semver) # "gt"
    ELSE Compare(sv, c.semver) = "eq"

\* testSet: every comparator holds; and a prerelease passes, unless
\* prereleases are included, only if some comparator names a prerelease of
\* the same major.minor.patch
TestSet(set, sv, includePrerelease) ==
    /\ \A k \in 1..Len(set) : ComparatorTest(set[k], sv)
    /\ \/ Len(sv.prerelease) = 0
       \/ includePrerelease
       \/ \E k \in 1..Len(set) :
             /\ Len(set[k].semver.prerelease) > 0
             /\ CompareMain(set[k].semver, sv) = "eq"

\* Range.test: a string that is no version fails
RangeTest(range, v, includePrerelease) ==
    /\ Parse(v).valid
    /\ TestSet(ParseRange(range), Parse(v), includePrerelease)

\* ----------------------------------------------------------------- state
VARIABLES
    pc,          \* where each invocation stands
    newVersion,  \* the version each invocation installs
    err,         \* the error an invocation is about to throw ("none": none)
    result,      \* what the invocation's promise settled with
    acquired,    \* lockfile.lock resolved for this invocation
    freeCalls,   \* how often the invocation has called freeLock
    swallowed,   \* the cleanup steps whose error the invocation swallowed
    lockDir,     \* the invocation that created the lock directory on disk
    lockStale,   \* the lock directory's mtime is older than the stale limit
    locks,       \* proper-lockfile's table of held locks, one per process
    active,      \* the invocations whose lock is still refreshed by its timer
    tmpDir,      \* the temporary directory of each invocation
    received,    \* chunks of the tarball piped into the file stream
    flushed,     \* chunks of the tarball written to the file
    extracted,   \* the files below tmpDir/extracted
    copied,      \* the files copyFilesRecursive has copied so far
    configDir,   \* the live configuration directory
    procOf,      \* the process each invocation runs in
    overlapped,  \* some invocation was called while another was under way
    lost,        \* a held lock has been lost at some time
    registryInfo,\* the registry's answer to each invocation's metadata request
    leftPartial, \* a failed invocation has returned with configDir incomplete
    checkPc,        \* where checkForConfigUpdates stands
    currentVersion, \* its argument
    registry,       \* what the registry answered
    allVersions,    \* the keys of registry.versions that pass the filters
    updateRange,    \* the range the update is looked for in
    toVisit,        \* the versions semverMaxSatisfying has yet to visit
    updateVersion,  \* the highest version in range found so far
    checkErr        \* the error checkForConfigUpdates threw

\* The variables of checkForConfigUpdates
checkVars == <<checkPc, currentVersion, registry, allVersions, updateRange,
               toVisit, updateVersion, checkErr>>

\* The variables of installConfigUpdate
installVars == <<pc, newVersion, err, result, acquired, freeCalls, swallowed,
                 lockDir, lockStale, locks, active, tmpDir, received, flushed,
                 extracted, copied, configDir, procOf, overlapped, lost,
                 registryInfo, leftPartial>>

vars == <<pc, newVersion, err, result, acquired, freeCalls, swallowed,
          lockDir, lockStale, locks, active, tmpDir, received, flushed,
          extracted, copied, configDir, procOf, checkVars,
                   registryInfo, leftPartial, overlapped, lost>>

lockVars == <<lockDir, lockStale, locks, active>>
workVars == <<tmpDir, received, flushed, extracted, copied>>

\* No invocation of installConfigUpdate has been called
InstallInit ==
    /\ pc = [i \in Installs |-> "idle"]
    /\ newVersion = [i \in Installs |-> OldVersion]
    /\ err = [i \in Installs |-> "none"]
    /\ result = [i \in Installs |-> "pending"]
    /\ acquired = [i \in Installs |-> FALSE]
    /\ freeCalls = [i \in Installs |-> 0]
    /\ swallowed = [i \in Installs |-> {}]
    /\ lockDir = None
    /\ lockStale = FALSE
    /\ locks = [p \in Procs |-> None]
    /\ active = {}
    /\ tmpDir = [i \in Installs |-> "none"]
    /\ received = [i \in Installs |-> 0]
    /\ flushed = [i \in Installs |-> 0]
    /\ extracted = [i \in Installs |-> {}]
    /\ copied = [i \in Installs |-> {}]
    /\ configDir = InitConfig
    /\ procOf \in {f \in [Installs -> Procs] : f["i1"] = "p1"}
    /\ overlapped = FALSE
    /\ lost = FALSE
    /\ registryInfo = [i \in Installs |-> Undefined]
    /\ leftPartial = FALSE

\* checkForConfigUpdates is not called
CheckIdle ==
    /\ checkPc = "idle"
    /\ currentVersion = <<>>
    /\ registry = Undefined
    /\ allVersions = {}
    /\ updateRange = <<>>
    /\ toVisit = {}
    /\ updateVersion = <<>>
    /\ checkErr = "none"

Init == InstallInit /\ CheckIdle

\* The positions between a successful lock acquisition and the end of freeLock
SectionPcs == {"mkdtemp", "open", "download", "delExtracted", "mkExtracted",
               "tar", "delConfig", "mkConfig", "copy", "stamp", "delTmp",
               "check", "unlock"}
Returned == {"done", "failed"}
Dead == {"crashed", "hung"}

\* The invocation has been called and its promise can still settle
UnderWay(j) == pc[j] \notin {"idle"} \cup Returned \cup Dead

\* The versions invocation i may be called with. Versions differ in name
\* only, so the first invocation's is fixed and the others' range over all.
Requested(i) == IF i = "i1" THEN {"v1"} ELSE Versions

\* The caller invokes installConfigUpdate(fs, v, external)
Start(i, v) ==
    /\ pc[i] = "idle"
    /\ pc' = [pc EXCEPT ![i] = "fetchInfo"]
    /\ newVersion' = [newVersion EXCEPT ![i] = v]
    /\ overlapped' = (overlapped \/ \E j \in Installs \ {i} : UnderWay(j))
    /\ UNCHANGED <<err, result, acquired, freeCalls, swallowed, lockVars,
                   workVars, configDir, procOf, checkVars, registryInfo, leftPartial, lost>>

\* throw new ZWaveError(..., Config_Update_InstallFailed) with no cleanup
Throw(i, e) ==
    /\ pc' = [pc EXCEPT ![i] = "failed"]
    /\ err' = [err EXCEPT ![i] = e]
    /\ result' = [result EXCEPT ![i] = e]

\* A faulty variant of IsString: anything but undefined passes
IsDefined(url) == url.type # "undefined"

\* typeof url === "string"
IsString(url) == url.type = "string"

\* The registry answers (or not) the request for the version's metadata:
\* got rejects (no connection, an HTTP error, a body that is no JSON), or the
\* body parses to some JSON value, of which registryInfo?.dist?.tarball is read
FetchInfo(i) ==
    /\ pc[i] = "fetchInfo"
    /\ \/ /\ Throw(i, "RegistryInfo")
          /\ UNCHANGED registryInfo
       \/ \E k \in 1..Len(RegistryInfos) :
             /\ registryInfo' = [registryInfo EXCEPT ![i] = RegistryInfos[k]]
             /\ IF IsString(OptionalGet(OptionalGet(RegistryInfos[k], "dist"), "tarball"))
                THEN /\ pc' = [pc EXCEPT ![i] = "lock"]
                     /\ UNCHANGED <<err, result>>
                ELSE Throw(i, "TarballUrl")
    /\ UNCHANGED <<newVersion, acquired, freeCalls, swallowed, lockVars,
                   workVars, configDir, procOf, checkVars, leftPartial,
                   overlapped, lost>>

\* acquireLock of the lock library: mkdir of the lock directory succeeds when
\* none exists; an existing one is taken over only when it is stale
LockAvailable == lockDir = None \/ lockStale

\* A faulty variant of LockRejected: the catch swallows the error and the invocation
\* goes on without the lock
LockRejectedSwallowed(i) ==
    /\ pc' = [pc EXCEPT ![i] = "mkdtemp"]
    /\ UNCHANGED <<err, result, acquired, lockVars>>

\* A faulty variant of LockRejected: the catch releases the lock before it throws, as
\* the later catch blocks do
LockRejectedDropsLock(i) ==
    /\ Throw(i, "AlreadyInProgress")
    /\ lockDir' = None
    /\ UNCHANGED <<acquired, lockStale, locks, active>>

\* The catch around lockfile.lock: throw "already in progress", nothing else
LockRejected(i) ==
    /\ Throw(i, "AlreadyInProgress")
    /\ UNCHANGED <<acquired, lockVars>>

\* await lockfile.lock(cacheDir, {lockfilePath, onCompromised: noop})
AcquireLock(i) ==
    /\ pc[i] = "lock"
    /\ IF LockAvailable
       THEN /\ lockDir' = i
            /\ lockStale' = FALSE
            /\ locks' = [locks EXCEPT ![procOf[i]] = i]
            /\ active' = active \cup {i}
            /\ acquired' = [acquired EXCEPT ![i] = TRUE]
            /\ pc' = [pc EXCEPT ![i] = "mkdtemp"]
            /\ UNCHANGED <<err, result>>
       ELSE LockRejected(i)
    /\ UNCHANGED <<newVersion, freeCalls, swallowed, workVars, configDir, procOf, checkVars,
                   registryInfo, leftPartial, overlapped, lost>>

\* lockfile.lock rejects for another reason (cacheDir cannot be resolved, the
\* mkdir fails): the same catch, the same message
LockError(i) ==
    /\ pc[i] = "lock"
    /\ LockRejected(i)
    /\ UNCHANGED <<newVersion, freeCalls, swallowed, workVars, configDir, procOf, checkVars,
                   registryInfo, leftPartial, overlapped, lost>>

\* A catch block of the locked section: await freeLock(), then throw e.
\* freeLock starts with lockfile.check; the throw follows when freeLock is over.
ReleaseThenThrow(i, e) ==
    /\ pc' = [pc EXCEPT ![i] = "check"]
    /\ err' = [err EXCEPT ![i] = e]
    /\ freeCalls' = [freeCalls EXCEPT ![i] = @ + 1]

\* The catch around fsp.mkdtemp
MkdtempFailed(i) == ReleaseThenThrow(i, "TmpDir")

\* tmpDir = await fsp.mkdtemp(...)
Mkdtemp(i) ==
    /\ pc[i] = "mkdtemp"
    /\ \/ /\ pc' = [pc EXCEPT ![i] = "open"]
          /\ tmpDir' = [tmpDir EXCEPT ![i] = "exists"]
          /\ UNCHANGED <<err, freeCalls>>
       \/ /\ MkdtempFailed(i)
          /\ UNCHANGED tmpDir
    /\ UNCHANGED <<newVersion, result, acquired, swallowed, lockVars,
                   received, flushed, extracted, copied, configDir, procOf, checkVars,
                   registryInfo, leftPartial, overlapped, lost>>

\* A faulty variant of DownloadFailed: the catch throws without calling freeLock
DownloadFailedNoRelease(i) ==
    /\ pc' = [pc EXCEPT ![i] = "failed"]
    /\ err' = [err EXCEPT ![i] = "Download"]
    /\ UNCHANGED freeCalls

\* The catch around the download
DownloadFailed(i) == ReleaseThenThrow(i, "Download")

\* const handle = await fsp.open(tarFilename, "w"); the stream is piped and
\* the promise on the response's events is awaited
OpenFile(i) ==
    /\ pc[i] = "open"
    /\ \/ /\ pc' = [pc EXCEPT ![i] = "download"]
          /\ UNCHANGED <<err, freeCalls>>
       \/ DownloadFailed(i)
    /\ UNCHANGED <<newVersion, result, acquired, swallowed, lockVars,
                   workVars, configDir, procOf, checkVars,
                   registryInfo, leftPartial, overlapped, lost>>

\* response.pipe(fstream): a chunk of the response is handed to the stream
Receive(i) ==
    /\ pc[i] = "download"
    /\ received[i] < ArchiveChunks
    /\ received' = [received EXCEPT ![i] = @ + 1]
    /\ UNCHANGED <<pc, newVersion, err, result, acquired, freeCalls,
                   swallowed, lockVars, tmpDir, flushed, extracted, copied,
                   configDir, procOf, checkVars,
                   registryInfo, leftPartial, overlapped, lost>>

\* The file stream writes a buffered chunk to the file; it goes on doing so
\* whatever the invocation is doing meanwhile
Flush(i) ==
    /\ pc[i] \notin Dead
    /\ flushed[i] < received[i]
    /\ flushed' = [flushed EXCEPT ![i] = @ + 1]
    /\ UNCHANGED <<pc, newVersion, err, result, acquired, freeCalls,
                   swallowed, lockVars, tmpDir, received, extracted, copied,
                   configDir, procOf, checkVars,
                   registryInfo, leftPartial, overlapped, lost>>

\* response.on("error", reject)
ResponseError(i) ==
    /\ pc[i] = "download"
    /\ DownloadFailed(i)
    /\ UNCHANGED <<newVersion, result, acquired, swallowed, lockVars,
                   workVars, configDir, procOf, checkVars,
                   registryInfo, leftPartial, overlapped, lost>>

\* response.on("end", resolve): the response has handed over its last chunk
ResponseEnd(i) ==
    /\ pc[i] = "download"
    /\ received[i] = ArchiveChunks
    /\ pc' = [pc EXCEPT ![i] = "delExtracted"]
    /\ UNCHANGED <<newVersion, err, result, acquired, freeCalls, swallowed,
                   lockVars, workVars, configDir, procOf, checkVars,
                   registryInfo, leftPartial, overlapped, lost>>

\* The invocations of a process that are under way
Running(p) == {j \in Installs : procOf[j] = p /\ UnderWay(j)}

\* A write of the file stream fails. Nothing listens for the stream's "error":
\* pipe re-emits it with no listener left, which is an uncaught exception. The
\* process dies with every invocation it runs and every lock timer it holds.
WriteErrorCrash(i) ==
    /\ pc[i] \in SectionPcs
    /\ flushed[i] < received[i]
    /\ pc' = [j \in Installs |-> IF j \in Running(procOf[i]) THEN "crashed" ELSE pc[j]]
    /\ active' = {j \in active : procOf[j] # procOf[i]}
    /\ locks' = [locks EXCEPT ![procOf[i]] = None]
    /\ UNCHANGED <<newVersion, err, result, acquired, freeCalls, swallowed,
                   lockDir, lockStale, workVars, configDir, procOf, checkVars,
                   registryInfo, leftPartial, overlapped, lost>>

\* The same failed write in a host that handles uncaught exceptions: the
\* response is unpiped and never ends, and the awaited promise never settles
WriteErrorHang(i) ==
    /\ pc[i] = "download"
    /\ flushed[i] < received[i]
    /\ pc' = [pc EXCEPT ![i] = "hung"]
    /\ UNCHANGED <<newVersion, err, result, acquired, freeCalls, swallowed,
                   lockVars, workVars, configDir, procOf, checkVars,
                   registryInfo, leftPartial, overlapped, lost>>

\* The catch around extraction and replacement
ExtractFailed(i) == ReleaseThenThrow(i, "Extract")

\* A directory that does not exist
Absent == [exists |-> FALSE, files |-> {}, stamp |-> NoFile]

\* A faulty variant of DelExtracted: the directory deleted is configDir
DelExtractedWrongDir(i) ==
    /\ pc[i] = "delExtracted"
    /\ \/ /\ pc' = [pc EXCEPT ![i] = "mkExtracted"]
          /\ configDir' = Absent
          /\ UNCHANGED <<err, freeCalls>>
       \/ /\ ExtractFailed(i)
          /\ UNCHANGED configDir
    /\ UNCHANGED <<newVersion, result, acquired, swallowed, lockVars,
                   workVars, procOf, checkVars,
                   registryInfo, leftPartial, overlapped, lost>>

\* await fs.deleteDir(extractedDir)
DelExtracted(i) ==
    /\ pc[i] = "delExtracted"
    /\ \/ /\ pc' = [pc EXCEPT ![i] = "mkExtracted"]
          /\ extracted' = [extracted EXCEPT ![i] = {}]
          /\ UNCHANGED <<err, freeCalls>>
       \/ /\ ExtractFailed(i)
          /\ UNCHANGED extracted
    /\ UNCHANGED <<newVersion, result, acquired, swallowed, lockVars,
                   tmpDir, received, flushed, copied, configDir,
                   procOf, checkVars,
                   registryInfo, leftPartial, overlapped, lost>>

\* await fs.ensureDir(extractedDir)
MkExtracted(i) ==
    /\ pc[i] = "mkExtracted"
    /\ \/ /\ pc' = [pc EXCEPT ![i] = "tar"]
          /\ UNCHANGED <<err, freeCalls>>
       \/ ExtractFailed(i)
    /\ UNCHANGED <<newVersion, result, acquired, swallowed, lockVars,
                   workVars, configDir, procOf, checkVars,
                   registryInfo, leftPartial, overlapped, lost>>

\* tar reads the file as it is on disk: a file that lacks chunks is a
\* truncated gzip stream, which tar exits on with an error
ArchiveComplete(i) == flushed[i] = ArchiveChunks

\* await execa("tar", ["--strip-components=1", "-xzf", tarFilename, "-C", extractedDir])
Tar(i) ==
    /\ pc[i] = "tar"
    /\ \/ /\ ArchiveComplete(i)
          /\ pc' = [pc EXCEPT ![i] = "delConfig"]
          /\ extracted' = [extracted EXCEPT ![i] = ArchiveFiles]
          /\ UNCHANGED <<err, freeCalls>>
       \/ /\ ExtractFailed(i)
          /\ UNCHANGED extracted
    /\ UNCHANGED <<newVersion, result, acquired, swallowed, lockVars,
                   tmpDir, received, flushed, copied, configDir,
                   procOf, checkVars,
                   registryInfo, leftPartial, overlapped, lost>>

\* A faulty variant of DelConfig: nothing is deleted
DelConfigSkipped(i) ==
    /\ pc[i] = "delConfig"
    /\ \/ /\ pc' = [pc EXCEPT ![i] = "mkConfig"]
          /\ UNCHANGED <<err, freeCalls>>
       \/ ExtractFailed(i)
    /\ UNCHANGED <<newVersion, result, acquired, swallowed, lockVars,
                   workVars, configDir, procOf, checkVars,
                   registryInfo, leftPartial, overlapped, lost>>

\* await fs.deleteDir(external.configDir)
DelConfig(i) ==
    /\ pc[i] = "delConfig"
    /\ \/ /\ pc' = [pc EXCEPT ![i] = "mkConfig"]
          /\ configDir' = Absent
          /\ UNCHANGED <<err, freeCalls>>
       \/ /\ ExtractFailed(i)
          /\ UNCHANGED configDir
    /\ UNCHANGED <<newVersion, result, acquired, swallowed, lockVars,
                   workVars, procOf, checkVars,
                   registryInfo, leftPartial, overlapped, lost>>

\* await fs.ensureDir(external.configDir)
MkConfig(i) ==
    /\ pc[i] = "mkConfig"
    /\ \/ /\ pc' = [pc EXCEPT ![i] = "copy"]
          /\ configDir' = [configDir EXCEPT !.exists = TRUE]
          /\ copied' = [copied EXCEPT ![i] = {}]
          /\ UNCHANGED <<err, freeCalls>>
       \/ /\ ExtractFailed(i)
          /\ UNCHANGED <<configDir, copied>>
    /\ UNCHANGED <<newVersion, result, acquired, swallowed, lockVars,
                   tmpDir, received, flushed, extracted, procOf, checkVars,
                   registryInfo, leftPartial, overlapped, lost>>

\* configDir after a file is copied to `name` in it; the copy creates the
\* directory of its target, and replaces a file of that name
WithFile(dir, name, v) ==
    [dir EXCEPT !.exists = TRUE,
                !.files = {g \in @ : g[1] # name} \cup {<<name, v>>}]

\* copyFilesRecursive(fs, extractedDir/config, configDir, filter): one file
\* that passes the filter is copied
CopyFile(i) ==
    /\ pc[i] = "copy"
    /\ \/ /\ \E f \in ToCopy(extracted[i]) \ copied[i] :
                /\ configDir' = WithFile(configDir, RelPath(f), newVersion[i])
                /\ copied' = [copied EXCEPT ![i] = @ \cup {f}]
          /\ UNCHANGED <<pc, err, freeCalls>>
       \/ /\ ExtractFailed(i)
          /\ copied' = [copied EXCEPT ![i] = {}]
          /\ UNCHANGED configDir
    /\ UNCHANGED <<newVersion, result, acquired, swallowed, lockVars,
                   tmpDir, received, flushed, extracted, procOf, checkVars,
                   registryInfo, leftPartial, overlapped, lost>>

\* copyFilesRecursive resolves: every file that passes the filter is copied
CopyDone(i) ==
    /\ pc[i] = "copy"
    /\ ToCopy(extracted[i]) \subseteq copied[i]
    /\ pc' = [pc EXCEPT ![i] = "stamp"]
    /\ copied' = [copied EXCEPT ![i] = {}]
    /\ UNCHANGED <<newVersion, err, result, acquired, freeCalls, swallowed,
                   lockVars, tmpDir, received, flushed, extracted, configDir,
                   procOf, checkVars,
                   registryInfo, leftPartial, overlapped, lost>>

\* await writeTextFile(fs, configDir/version, newVersion)
Stamp(i) ==
    /\ pc[i] = "stamp"
    /\ \/ /\ configDir.exists
          /\ pc' = [pc EXCEPT ![i] = "delTmp"]
          /\ configDir' = [configDir EXCEPT !.stamp = newVersion[i]]
          /\ UNCHANGED <<err, freeCalls>>
       \/ /\ ExtractFailed(i)
          /\ UNCHANGED configDir
    /\ UNCHANGED <<newVersion, result, acquired, swallowed, lockVars,
                   workVars, procOf, checkVars,
                   registryInfo, leftPartial, overlapped, lost>>

\* await fs.deleteDir(tmpDir).catch(noop); then await freeLock()
DelTmp(i) ==
    /\ pc[i] = "delTmp"
    /\ \/ /\ tmpDir' = [tmpDir EXCEPT ![i] = "removed"]
          /\ UNCHANGED swallowed
       \/ /\ swallowed' = [swallowed EXCEPT ![i] = @ \cup {"delTmp"}]
          /\ UNCHANGED tmpDir
    /\ pc' = [pc EXCEPT ![i] = "check"]
    /\ freeCalls' = [freeCalls EXCEPT ![i] = @ + 1]
    /\ UNCHANGED <<newVersion, err, result, acquired, lockVars, received,
                   flushed, extracted, copied, configDir, procOf, checkVars,
                   registryInfo, leftPartial, overlapped, lost>>

\* configDir after a complete install of version v
Installed(v) ==
    [exists |-> TRUE,
     files |-> {<<RelPath(f), v>> : f \in ToCopy(ArchiveFiles)},
     stamp |-> v]

\* configDir holds a whole set of contents: the initial one or an installed one
Whole(dir) == dir = InitConfig \/ \E v \in Versions : dir = Installed(v)

\* A faulty variant of Outcome: a cleanup error that was caught is reported instead of
\* the outcome of the installation
OutcomeMasked(i) ==
    IF swallowed[i] # {} THEN "CleanupFailed"
    ELSE IF err[i] = "none" THEN "ok" ELSE err[i]

\* What installConfigUpdate settles with once freeLock is over: the error of
\* the catch block that called freeLock, or success
Outcome(i) == IF err[i] = "none" THEN "ok" ELSE err[i]

\* freeLock returns; the catch block throws its error, the success path returns
AfterFreeLock(i) ==
    /\ pc' = [pc EXCEPT ![i] = IF Outcome(i) = "ok" THEN "done" ELSE "failed"]
    /\ result' = [result EXCEPT ![i] = Outcome(i)]
    /\ leftPartial' = (leftPartial \/ (err[i] # "none" /\ ~Whole(configDir)))

\* lockfile.check: the lock directory exists and is not stale
CheckResult == lockDir # None /\ ~lockStale

\* freeLock: if (await lockfile.check(lockfilePath, lockfileOptions))
Check(i) ==
    /\ pc[i] = "check"
    /\ \/ /\ CheckResult
          /\ pc' = [pc EXCEPT ![i] = "unlock"]
          /\ UNCHANGED <<result, swallowed, leftPartial>>
       \/ /\ ~CheckResult
          /\ AfterFreeLock(i)
          /\ UNCHANGED swallowed
       \/ /\ swallowed' = [swallowed EXCEPT ![i] = @ \cup {"check"}]
          /\ AfterFreeLock(i)
    /\ UNCHANGED <<newVersion, err, acquired, freeCalls, lockVars, workVars,
                   configDir, procOf, checkVars, registryInfo, overlapped, lost>>

\* freeLock: await lockfile.unlock(lockfilePath, lockfileOptions). The library
\* looks the lock up in its table by the locked path: without an entry it
\* rejects (ENOTACQUIRED); with one it stops that lock's timer, drops the entry
\* and removes the lock directory, which may fail. freeLock swallows either.
Unlock(i) ==
    /\ pc[i] = "unlock"
    /\ IF locks[procOf[i]] = None
       THEN /\ swallowed' = [swallowed EXCEPT ![i] = @ \cup {"unlock"}]
            /\ UNCHANGED lockVars
       ELSE /\ active' = active \ {locks[procOf[i]]}
            /\ locks' = [locks EXCEPT ![procOf[i]] = None]
            /\ \/ /\ lockDir' = None
                  /\ lockStale' = FALSE
                  /\ UNCHANGED swallowed
               \/ /\ swallowed' = [swallowed EXCEPT ![i] = @ \cup {"unlock"}]
                  /\ UNCHANGED <<lockDir, lockStale>>
    /\ AfterFreeLock(i)
    /\ UNCHANGED <<newVersion, err, acquired, freeCalls, workVars,
                   configDir, procOf, checkVars, registryInfo, overlapped, lost>>

\* The lock directory of a held lock is lost: removed from outside, or taken
\* after its holder missed refreshing it in time
LockLost ==
    /\ lockDir # None
    /\ lockDir \in active
    /\ lockDir' = None
    /\ lockStale' = FALSE
    /\ lost' = TRUE
    /\ UNCHANGED <<pc, newVersion, err, result, acquired, freeCalls,
                   swallowed, locks, active, workVars, configDir,
                   procOf, checkVars, registryInfo, leftPartial, overlapped>>

\* A lock directory that no timer refreshes passes the stale limit
GoStale ==
    /\ lockDir # None
    /\ lockDir \notin active
    /\ ~lockStale
    /\ lockStale' = TRUE
    /\ UNCHANGED <<pc, newVersion, err, result, acquired, freeCalls,
                   swallowed, lockDir, locks, active, workVars, configDir, procOf, checkVars,
                   registryInfo, leftPartial, overlapped, lost>>

\* The lock's timer finds the lock directory gone or not its own: the library
\* drops the lock and calls onCompromised, which does nothing; the invocation
\* goes on where it is
OnCompromised(i) ==
    /\ i \in active
    /\ lockDir # i
    /\ active' = active \ {i}
    /\ locks' = [locks EXCEPT ![procOf[i]] = IF @ = i THEN None ELSE @]
    /\ UNCHANGED <<pc, newVersion, err, result, acquired, freeCalls,
                   swallowed, lockDir, lockStale, workVars, configDir, procOf, checkVars,
                   registryInfo, leftPartial, overlapped, lost>>

Next ==
    \/ \E i \in Installs : \E v \in Requested(i) : Start(i, v)
    \/ \E i \in Installs : FetchInfo(i)
    \/ \E i \in Installs : AcquireLock(i)
    \/ \E i \in Installs : LockError(i)
    \/ \E i \in Installs : Mkdtemp(i)
    \/ \E i \in Installs : OpenFile(i)
    \/ \E i \in Installs : Receive(i)
    \/ \E i \in Installs : Flush(i)
    \/ \E i \in Installs : ResponseError(i)
    \/ \E i \in Installs : ResponseEnd(i)
    \/ \E i \in Installs : WriteErrorCrash(i)
    \/ \E i \in Installs : WriteErrorHang(i)
    \/ \E i \in Installs : DelExtracted(i)
    \/ \E i \in Installs : MkExtracted(i)
    \/ \E i \in Installs : Tar(i)
    \/ \E i \in Installs : DelConfig(i)
    \/ \E i \in Installs : MkConfig(i)
    \/ \E i \in Installs : CopyFile(i)
    \/ \E i \in Installs : CopyDone(i)
    \/ \E i \in Installs : Stamp(i)
    \/ \E i \in Installs : DelTmp(i)
    \/ \E i \in Installs : Check(i)
    \/ \E i \in Installs : Unlock(i)
    \/ \E i \in Installs : OnCompromised(i)
    \/ LockLost
    \/ GoStale

Spec == Init /\ [][Next]_vars

\* ------------------------------------------------- checkForConfigUpdates
\* Length of the date tag the version filter asks for: /\-\d{8}$/
DateDigits == 8

\* The most versions a registry listing holds
MaxVersions == 3

V724 == <<"7", ".", "2", ".", "4">>
V725 == <<"7", ".", "2", ".", "5">>
V726 == <<"7", ".", "2", ".", "6">>
V730 == <<"7", ".", "3", ".", "0">>
Date0101 == <<"-", "2", "0", "2", "0", "0", "1", "0", "1">>
Date0424 == <<"-", "2", "0", "2", "0", "0", "4", "2", "4">>

\* The version strings a listing is made of: dated prereleases below, inside
\* and above the ranges; releases; prereleases without a date tag, with a
\* longer number, and with the date at the end of a word; a release whose
\* build metadata ends in a date; a string that is no version but ends in one
VersionStrings ==
    { V724 \o Date0424,
      V725 \o Date0101,
      V725 \o Date0424,
      V726 \o Date0101,
      V725,
      V730,
      V725 \o <<"-", "b", "e", "t", "a">>,
      V725 \o <<"-", "1", "2", "0", "2", "0", "0", "4", "2", "4">>,
      V725 \o <<"-", "a">> \o Date0101,
      V725 \o <<"+", "b">> \o Date0424,
      <<"7", ".", "2">> \o Date0424 }

\* The versions checkForConfigUpdates is called with
CurrentVersions == {V724, V725, V725 \o Date0101}

\* The registry's listings: a versions mapping of at most MaxVersions keys
Listings == {l \in SUBSET VersionStrings : Cardinality(l) <= MaxVersions}

\* The documents the registry may answer the package request with
MalformedRegistries ==
    << JsonNull, JsonString, JsonNumber, JsonArray,
       JsonObject(NoProps),
       JsonObject([versions |-> JsonNull]),
       JsonObject([versions |-> JsonString]),
       JsonObject([versions |-> JsonArray]) >>

RegistryWith(listing) ==
    JsonObject([versions |-> JsonObject([v \in listing |-> JsonObject(NoProps)])])

\* No version: null, undefined
NoVersion == <<>>

\* isObject of alcalzone-shared: a plain object, no array, not null
isObject(it) == it.type = "object"

\* A faulty variant of TestDate: any digits at the end will do
TestDigitsAtEnd(v) == Len(v) > 0 /\ IsDigit(v[Len(v)])

\* /\-\d{8}$/.test(v)
TestDate(v) ==
    /\ Len(v) >= DateDigits + 1
    /\ v[Len(v) - DateDigits] = "-"
    /\ \A k \in (Len(v) - DateDigits + 1)..Len(v) : IsDigit(v[k])

\* Object.keys(o) of an object
ObjectKeys(o) == IF o.type = "object" THEN DOMAIN o.props ELSE {}

\* Object.keys(registry.versions).filter(semverValid).filter(date test)
FilterVersions(keys) == {v \in {w \in keys : semverValid(w)} : TestDate(v)}

\* `>${currentVersion} <${semverInc(currentVersion, "patch")}`
UpdateRange(current) == <<">">> \o current \o <<" ", "<">> \o semverInc(current)

\* The caller invokes checkForConfigUpdates(currentVersion)
CheckStart ==
    /\ checkPc = "idle"
    /\ checkPc' = "get"
    /\ UNCHANGED <<currentVersion, registry, allVersions, updateRange, toVisit,
                   updateVersion, checkErr, installVars>>

\* throw new ZWaveError(..., Config_Update_RegistryError)
ThrowRegistryError ==
    /\ checkPc' = "failed"
    /\ checkErr' = "RegistryError"

\* A faulty variant of HasVersions: only the document itself is looked at
HasVersionsUnchecked(r) == isObject(r)

\* isObject(registry) && isObject(registry.versions)
HasVersions(r) == isObject(r) /\ isObject(OptionalGet(r, "versions"))

\* registry = await got.get(...).json(): got rejects (no connection, an HTTP
\* error, a body that is no JSON), or the body parses to some JSON value
GetRegistry ==
    /\ checkPc = "get"
    /\ \/ /\ ThrowRegistryError
          /\ UNCHANGED registry
       \/ /\ \/ \E k \in 1..Len(MalformedRegistries) : registry' = MalformedRegistries[k]
             \/ \E l \in Listings : registry' = RegistryWith(l)
          /\ checkPc' = "validate"
          /\ UNCHANGED checkErr
    /\ UNCHANGED <<currentVersion, allVersions, updateRange, toVisit,
                   updateVersion, installVars>>

\* The check of the document, then the filters and the range; a document
\* that passes has its versions' keys read
ValidateRegistry ==
    /\ checkPc = "validate"
    /\ IF HasVersions(registry)
       THEN /\ allVersions' = FilterVersions(ObjectKeys(OptionalGet(registry, "versions")))
            /\ updateRange' = UpdateRange(currentVersion)
            /\ toVisit' = allVersions'
            /\ checkPc' = "maxSatisfying"
            /\ UNCHANGED checkErr
       ELSE /\ ThrowRegistryError
            /\ UNCHANGED <<allVersions, updateRange, toVisit>>
    /\ UNCHANGED <<currentVersion, registry, updateVersion, installVars>>

\* semverMaxSatisfying visits one version: it becomes the maximum if it is in
\* the range and there is none yet or it is above the one there is
MaxSatisfyingStep ==
    /\ checkPc = "maxSatisfying"
    /\ \E v \in toVisit :
          /\ toVisit' = toVisit \ {v}
          /\ updateVersion' =
                IF /\ RangeTest(updateRange, v, IncludePrerelease)
                   /\ \/ updateVersion = NoVersion
                      \/ Compare(Parse(updateVersion), Parse(v)) = "lt"
                THEN v ELSE updateVersion
    /\ UNCHANGED <<checkPc, currentVersion, registry, allVersions, updateRange,
                   checkErr, installVars>>

\* if (updateVersion) return updateVersion; (undefined otherwise)
ReturnUpdate ==
    /\ checkPc = "maxSatisfying"
    /\ toVisit = {}
    /\ checkPc' = "returned"
    /\ UNCHANGED <<currentVersion, registry, allVersions, updateRange, toVisit,
                   updateVersion, checkErr, installVars>>

CheckNext ==
    \/ CheckStart
    \/ GetRegistry
    \/ ValidateRegistry
    \/ MaxSatisfyingStep
    \/ ReturnUpdate

\* checkForConfigUpdates on its own, for each argument and each answer
CheckInit ==
    /\ InstallInit
    /\ checkPc = "idle"
    /\ currentVersion \in CurrentVersions
    /\ registry = Undefined
    /\ allVersions = {}
    /\ updateRange = <<>>
    /\ toVisit = {}
    /\ updateVersion = NoVersion
    /\ checkErr = "none"

CheckSpec == CheckInit /\ [][CheckNext]_vars

\* ---------------------------------------------------------------- claims
\* The invocation is between its lock acquisition and the end of freeLock
InSection(i) == pc[i] \in SectionPcs

\* The invocation is in the replace phase: its next step writes to configDir
ReplacePcs == {"delConfig", "mkConfig", "copy", "stamp"}

\* The swallowed errors that left the release routine unfinished
ReleaseErrors(i) == swallowed[i] \cap {"check", "unlock"}

\* C1: in every reachable state at most one invocation is between a
\* successful lock acquisition and its lock release.
C1_AtMostOneInSection ==
    Cardinality({i \in Installs : InSection(i)}) <= 1

C3_FailedReleasesLock ==
    \A i \in Installs : pc[i] = "failed" => ~(lockDir = i /\ ~lockStale)

\* C4: once an install has returned in failure and nobody is installing,
\* configDir holds a whole set of contents: those before any install or those
\* of a complete install, never a deleted, empty or partial directory.
C4_ConfigDirWhole ==
    ( /\ \E i \in Installs : pc[i] = "failed"
      /\ \A j \in Installs : ~InSection(j) )
    => \/ configDir = InitConfig
       \/ \E v \in Versions : configDir = Installed(v)

\* C5: when install has returned after creating its temporary directory, the
\* directory no longer exists, unless deleting it failed.
C5_TmpDirGone ==
    \A i \in Installs :
        (pc[i] \in Returned /\ tmpDir[i] # "none" /\ "delTmp" \notin swallowed[i])
        => tmpDir[i] = "removed"

\* C6: when install(v) returns successfully, configDir/version holds v, every
\* .json file of the archive's config/ is in configDir, and nothing else is.
C6_SuccessInstallsExactly ==
    [][\A i \in Installs :
          (pc[i] # "done" /\ pc'[i] = "done")
          => configDir' = Installed(newVersion[i])]_vars

\* C7: an invocation that finds the lock held by another fails at once with
\* "already in progress" and does nothing else: no temporary directory, no
\* download, no write to configDir, no change to the holder's lock; and having
\* failed it takes no further step.
C7_RejectedTouchesNothing ==
    [][\A i \in Installs :
          /\ (pc[i] = "lock" /\ pc'[i] \notin {"lock", "crashed"} /\ ~LockAvailable)
             => /\ pc'[i] = "failed"
                /\ result'[i] = "AlreadyInProgress"
                /\ ~acquired'[i]
                /\ UNCHANGED <<lockVars, workVars, configDir, freeCalls>>
          /\ (pc[i] = "failed" /\ err[i] = "AlreadyInProgress")
             => /\ pc'[i] = "failed"
                /\ tmpDir'[i] = "none"
                /\ received'[i] = 0
                /\ freeCalls'[i] = 0]_vars

\* C7 witness: an invocation was rejected while the other held the lock and
\* was at work in the locked section
C7_Witness ==
    \E i, j \in Installs :
        /\ i # j
        /\ pc[i] = "failed" /\ err[i] = "AlreadyInProgress"
        /\ lockDir = j /\ j \in active /\ pc[j] = "copy"

\* C8: when install returns, freeLock has been called exactly once if the
\* invocation acquired the lock and never if it did not; it is never called
\* twice, and never without the lock having been acquired.
C8_ReleaseCalledOnce ==
    \A i \in Installs :
        /\ freeCalls[i] <= 1
        /\ freeCalls[i] = 1 => acquired[i]
        /\ pc[i] \in Returned => freeCalls[i] = (IF acquired[i] THEN 1 ELSE 0)

\* C8 witness: an invocation that acquired the lock has returned in failure
\* from the locked section, another successfully
C8_Witness ==
    /\ pc["i1"] = "failed" /\ err["i1"] = "Download" /\ acquired["i1"]
    /\ pc["i2"] = "done" /\ acquired["i2"]

\* C9: a swallowed cleanup error (deleting the temporary directory, the lock
\* check, the unlock) never changes what install reports: success stays
\* success, a failure stays the error of the step that failed; and the release
\* still runs after a failed deletion of the temporary directory.
C9_CleanupNeverMasks ==
    \A i \in Installs :
        /\ pc[i] = "done" => (result[i] = "ok" /\ err[i] = "none")
        /\ pc[i] = "failed" => (result[i] = err[i] /\ err[i] # "none")
        /\ (pc[i] \in Returned /\ "delTmp" \in swallowed[i]) => freeCalls[i] = 1

\* C9 witness: one install succeeded although deleting its temporary directory
\* and releasing its lock both failed, and one failed install whose release
\* failed reports its download error
C9_Witness ==
    /\ pc["i1"] = "done"
    /\ "delTmp" \in swallowed["i1"] /\ ReleaseErrors("i1") # {}
    /\ pc["i2"] = "failed" /\ result["i2"] = "Download"
    /\ ReleaseErrors("i2") # {}

\* C10: configDir is written only by an invocation that holds the lock: at
\* every change of configDir the lock directory on disk is the one of an
\* invocation that is in the replace phase.
C10_WritesOnlyUnderLock ==
    [][configDir' # configDir
       => /\ lockDir # None
          /\ pc[lockDir] \in ReplacePcs]_vars

\* C11: no error of the download escapes install or leaves it pending: no
\* invocation is ever killed by an uncaught error or left waiting on a promise
\* that cannot settle; every such error ends in the catch around the download.
C11_DownloadErrorsSurface ==
    \A i \in Installs : pc[i] \notin Dead

\* The metadata an invocation got names a tarball URL that is a string
NamesTarball(info) ==
    /\ info.type = "object"
    /\ "dist" \in DOMAIN info.props
    /\ info.props.dist.type = "object"
    /\ "tarball" \in DOMAIN info.props.dist.props
    /\ info.props.dist.props.tarball.type = "string"

\* C12: an invocation that is past its metadata request without metadata that
\* names a tarball URL string (the request failed, or dist.tarball is absent
\* or no string) has failed with InstallFailedError and has not acquired the
\* lock, created a temporary directory or called the release; running alone,
\* it leaves the lock free and configDir as it was.
C12_NoMetadataNoEffects ==
    \A i \in Installs :
        (pc[i] \notin {"idle", "fetchInfo", "crashed"} /\ ~NamesTarball(registryInfo[i]))
        => /\ pc[i] = "failed"
           /\ result[i] \in {"RegistryInfo", "TarballUrl"}
           /\ ~acquired[i]
           /\ tmpDir[i] = "none"
           /\ freeCalls[i] = 0
           /\ (\A j \in Installs \ {i} : pc[j] = "idle")
              => (lockDir = None /\ configDir = InitConfig)

\* C12 witness: one invocation failed on a document whose dist.tarball is no
\* string, the other because its metadata request failed
C12_Witness ==
    /\ pc["i1"] = "failed" /\ result["i1"] = "TarballUrl"
    /\ registryInfo["i1"].type = "object"
    /\ "dist" \in DOMAIN registryInfo["i1"].props
    /\ pc["i2"] = "failed" /\ result["i2"] = "RegistryInfo"

\* The keys of the versions mapping of a registry document
ListingOf(r) == ObjectKeys(OptionalGet(r, "versions"))

\* The release major.minor.p of a version's major.minor
Release(sv, p) ==
    [valid |-> TRUE, major |-> sv.major, minor |-> sv.minor, patch |-> p,
     prerelease |-> <<>>, build |-> <<>>]

\* nextPatch: the lowest release of the version's major.minor above it
NextPatch(sv) ==
    Release(sv, CHOOSE p \in 0..(sv.patch + 1) :
                   /\ Compare(sv, Release(sv, p)) = "lt"
                   /\ \A q \in 0..(p - 1) : Compare(sv, Release(sv, q)) # "lt")

\* The string ends in a dash and an 8-digit date tag
EndsInDate(v) ==
    \E k \in 1..Len(v) :
        /\ v[k] = "-"
        /\ Len(v) - k = DateDigits
        /\ IsDigits(SubSeq(v, k + 1, Len(v)))

\* The listed versions that qualify as an update of current: valid, dated,
\* and strictly between current and nextPatch(current)
Qualifying(listing, current) ==
    {v \in listing :
        /\ Parse(v).valid
        /\ EndsInDate(v)
        /\ Compare(Parse(current), Parse(v)) = "lt"
        /\ Compare(Parse(v), NextPatch(Parse(current))) = "lt"}

\* C13: checkForConfigUpdates returns a maximum, in semantic-version order,
\* of the dated versions of the listing strictly between currentVersion and
\* nextPatch(currentVersion), and no version exactly when there is none.
C13_ReturnsMaxInRange ==
    checkPc = "returned" =>
        IF Qualifying(ListingOf(registry), currentVersion) = {}
        THEN updateVersion = NoVersion
        ELSE /\ updateVersion \in Qualifying(ListingOf(registry), currentVersion)
             /\ \A w \in Qualifying(ListingOf(registry), currentVersion) :
                   Compare(Parse(w), Parse(updateVersion)) # "gt"

\* C13 witness: the example: current 7.2.4, listed 7.2.5-20200101,
\* 7.2.5-20200424 and 7.3.0, returned 7.2.5-20200424
C13_Witness ==
    /\ checkPc = "returned"
    /\ currentVersion = V724
    /\ ListingOf(registry) = {V725 \o Date0101, V725 \o Date0424, V730}
    /\ updateVersion = V725 \o Date0424

\* C14: a version checkForConfigUpdates holds as its result is a key of the
\* listing, a valid version, no release (it has a prerelease part) and ends
\* in a dash and 8 digits.
C14_OnlyDatedPrereleases ==
    updateVersion # NoVersion =>
        /\ updateVersion \in ListingOf(registry)
        /\ Parse(updateVersion).valid
        /\ Len(Parse(updateVersion).prerelease) > 0
        /\ EndsInDate(updateVersion)

\* C14 witness: a dated prerelease was returned although the listing holds a
\* higher prerelease without a date in the range, and an invalid dated string
C14_Witness ==
    /\ checkPc = "returned"
    /\ currentVersion = V724
    /\ ListingOf(registry) = {V725 \o Date0101, V725 \o <<"-", "b", "e", "t", "a">>,
                              <<"7", ".", "2">> \o Date0424}
    /\ updateVersion = V725 \o Date0101

\* The registry answered with an object that has a versions object
WellFormed(r) ==
    /\ r.type = "object"
    /\ "versions" \in DOMAIN r.props
    /\ r.props.versions.type = "object"

\* C15: once the request is over, a registry that could not be reached or
\* whose answer is no object with a versions object has made
\* checkForConfigUpdates fail, with RegistryError and without a version; and
\* RegistryError is the only error it fails with.
C15_MalformedIsRegistryError ==
    /\ (checkPc \notin {"idle", "get", "validate"} /\ ~WellFormed(registry))
       => (checkPc = "failed" /\ checkErr = "RegistryError" /\ updateVersion = NoVersion)
    /\ checkPc = "failed" => checkErr = "RegistryError"
    /\ checkErr \in {"none", "RegistryError"}

\* C15 witness: the check failed on a document whose versions is no object
C15_Witness ==
    /\ checkPc = "failed"
    /\ checkErr = "RegistryError"
    /\ registry.type = "object"
    /\ "versions" \in DOMAIN registry.props
    /\ registry.props.versions.type = "array"

\* C16: an install that succeeds without having overlapped another one (a
\* retry after the earlier attempt has failed or died) leaves configDir with
\* exactly the archive's .json files and the stamp of its version, whatever
\* the earlier attempt left there.
C16_RetryInstallsExactly ==
    [][\A i \in Installs :
          (pc[i] # "done" /\ pc'[i] = "done" /\ ~overlapped)
          => configDir' = Installed(newVersion[i])]_vars

\* C16 witness: the first attempt failed and left configDir incomplete; the
\* retry, of another version, has succeeded
C16_Witness ==
    /\ ~overlapped
    /\ leftPartial
    /\ pc["i1"] = "failed" /\ err["i1"] = "Extract"
    /\ pc["i2"] = "done" /\ newVersion["i2"] = "v2"
    /\ configDir = Installed("v2")

\* The invocation has failed, or is about to once its release is over, at a
\* step before the replace phase
FailedBeforeReplace(i) ==
    /\ pc[i] \in {"check", "unlock", "failed"}
    /\ \/ err[i] \in {"RegistryInfo", "TarballUrl", "AlreadyInProgress",
                      "TmpDir", "Download"}
       \/ err[i] = "Extract" /\ extracted[i] # ArchiveFiles

\* C17: when an invocation fails before its replace phase, and no other
\* invocation has got as far as having extracted its archive, configDir and
\* its version stamp are as they were before any install.
C17_EarlyFailureKeepsConfig ==
    \A i \in Installs :
        (FailedBeforeReplace(i) /\ \A j \in Installs \ {i} : extracted[j] # ArchiveFiles)
        => configDir = InitConfig

\* C17 witness: one invocation failed in the tar extraction, the other in the
\* download
C17_Witness ==
    /\ pc["i1"] = "failed" /\ err["i1"] = "Extract"
    /\ tmpDir["i1"] = "exists" /\ extracted["i1"] = {}
    /\ pc["i2"] = "failed" /\ err["i2"] = "Download"

\* C18: the version stamp is written last: when configDir/version holds a new
\* version, every .json file of that version's archive is in configDir, and
\* while it holds the old version no file of a new version is.
C18_StampImpliesAllFiles ==
    /\ \A v \in Versions :
          configDir.stamp = v => Installed(v).files \subseteq configDir.files
    /\ configDir.stamp = OldVersion => \A f \in configDir.files : f[2] = OldVersion

\* C19: once the download step is over (the extraction is being prepared or
\* run), every chunk piped into the file stream is written to the file.
C19_ExtractAfterWritten ==
    \A i \in Installs :
        pc[i] \in {"delExtracted", "mkExtracted", "tar"} => flushed[i] = ArchiveChunks

\* C20: the unlock of an invocation's release removes no lock but its own: the
\* lock directory it removes is the one it created, and it stops no other
\* invocation's lock from being refreshed.
C20_ReleaseOnlyOwnLock ==
    [][\A i \in Installs :
          (pc[i] = "unlock" /\ pc'[i] \in Returned)
          => /\ lockDir' = lockDir \/ lockDir = i
             /\ active' \ {i} = active \ {i}]_vars
====
